---- MODULE Spec2Model ----
(***************************************************************************)
(* Model of dags/commercial_data_pipeline_dag.py: the DAG dag_commercial.   *)
(* A DAG run is the chain extract_and_transform -> load_to_s3 ->            *)
(* load_to_redshift.  Several runs may be active at once (the DAG sets no   *)
(* max_active_runs); they share the object store (raw files, the processed  *)
(* history document, the parquet blobs) and the warehouse tables.           *)
(***************************************************************************)
EXTENDS Integers, Sequences, FiniteSets, Bags, TLC

\* ------------------------------------------------------------------ bounds
MaxRuns == 2        \* DAG runs of one behaviour
MaxFiles == 2       \* raw objects in the bucket
MaxClock == 1       \* minutes the wall clock advances
MaxText == 4        \* characters of a raw field given to parse_int / parse_float

Runs == 1..MaxRuns

\* ------------------------------------------------------- program constants
LOOKBACK == 5             \* range(5) and subtract(minutes=5 - i)
MINUTES_PER_HOUR == 60
MINUTES_PER_DAY == 1440

\* ------------------------------------------------------------ input sets
\* logical dates (minutes of civil time, Asia/Seoul) a run can be triggered
\* at: manual triggers at 00:00, 00:01 and 00:05 of the second day
TriggerTimes == {MINUTES_PER_DAY, MINUTES_PER_DAY + 1, MINUTES_PER_DAY + LOOKBACK}
\* minutes at which the external producer wrote raw files: 23:59 and 00:00
FileMinutes == {MINUTES_PER_DAY - 1, MINUTES_PER_DAY}
\* the wall clock when the first run starts
ClockStart == MINUTES_PER_DAY + LOOKBACK
\* what follows "HHmm_" in a raw file name, ".json" removed, as characters
FileNames == { <<"1">>, <<"2">>, <<"0", "1">>, <<"x">>, <<"1", "_", "2">> }

NoTime == [kind |-> "null", date |-> 0, hhmm |-> 0]
RawTime(d, hm) == [kind |-> "str", date |-> d, hhmm |-> hm]

\* a raw object body: malformed JSON, or a document with AREA_CD,
\* LIVE_CMRCL_STTS.CMRCL_TIME (null, or "YYYYMMDD HHmm" as date and HHmm) and
\* LIVE_CMRCL_STTS.CMRCL_RSB (rsb = -1: key absent, RsbNull: the value is
\* null, otherwise the array length)
RsbNull == -2
Body(cd, tm, n) == [kind |-> "json", area_cd |-> cd, time |-> tm, rsb |-> n]
MalformedBody == [kind |-> "malformed", area_cd |-> "", time |-> NoTime, rsb |-> -1]
Bodies ==
    { MalformedBody,
      Body("POI001", RawTime(0, 0), 2),
      Body("POI002", RawTime(0, 0), -1),
      Body("POI001", RawTime(0, 5), 0),
      Body("POI002", RawTime(0, 5), RsbNull),
      Body("POI001", NoTime, 2),
      Body("POI002", RawTime(0, 61), 2) }

\* --------------------------------------------------------- text and time
DigitChars == <<"0", "1", "2", "3", "4", "5", "6", "7", "8", "9">>
Digits == {DigitChars[i] : i \in 1..Len(DigitChars)}
DigitVal(c) == (CHOOSE i \in 1..Len(DigitChars) : DigitChars[i] = c) - 1

\* Python int(s) on a string of the model's alphabet: a ValueError unless s is
\* a non-empty run of decimal digits
IsIntLiteral(s) == Len(s) > 0 /\ \A i \in 1..Len(s) : s[i] \in Digits
RECURSIVE IntOfStr(_)
IntOfStr(s) ==
    IF Len(s) = 0 THEN 0
    ELSE 10 * IntOfStr(SubSeq(s, 1, Len(s) - 1)) + DigitVal(s[Len(s)])

\* Python str(n), n >= 0
RECURSIVE StrOfInt(_)
StrOfInt(n) ==
    IF n < 10 THEN <<DigitChars[n + 1]>>
    ELSE StrOfInt(n \div 10) \o <<DigitChars[(n % 10) + 1]>>

\* strftime("%Y%m%d") and strftime("%H%M") of a minute of civil time
StrfDate(t) == t \div MINUTES_PER_DAY
StrfHHMM(t) ==
    ((t % MINUTES_PER_DAY) \div MINUTES_PER_HOUR) * 100 + (t % MINUTES_PER_HOUR)

\* the object key {S3_PREFIX}/{YYYYMMDD}/{HHmm}_{name}.json
RawKey(d, hm, nm) == [date |-> d, hhmm |-> hm, name |-> nm]
RawKeys == {RawKey(StrfDate(t), StrfHHMM(t), nm) : t \in FileMinutes, nm \in FileNames}

\* code points, for the object store's listing order (UTF-8 binary order)
CharOrd(c) ==
    CASE c = "." -> 46
      [] c \in Digits -> 48 + DigitVal(c)
      [] c = "_" -> 95
      [] OTHER -> 120

RECURSIVE LexLess(_, _)
LexLess(a, b) ==
    IF Len(a) = 0 THEN Len(b) > 0
    ELSE IF Len(b) = 0 THEN FALSE
    ELSE IF CharOrd(a[1]) # CharOrd(b[1]) THEN CharOrd(a[1]) < CharOrd(b[1])
    ELSE LexLess(Tail(a), Tail(b))

\* file_name_with_ext.replace(".json", "").split("_")[1]: the characters after
\* "HHmm_" up to the next underscore
RECURSIVE AreaPart(_)
AreaPart(nm) ==
    IF Len(nm) = 0 \/ nm[1] = "_" THEN <<>>
    ELSE <<nm[1]>> \o AreaPart(Tail(nm))

\* pendulum.from_format(raw, "YYYYMMDD HHmm"): raises for None and for fields
\* out of range
Parseable(raw) ==
    /\ raw.kind = "str"
    /\ raw.hhmm \div 100 < 24
    /\ raw.hhmm % 100 < MINUTES_PER_HOUR
\* ... .format("YYYY-MM-DD HH:mm:ss")
FormatObservedAt(raw) ==
    [date |-> raw.date, hh |-> raw.hhmm \div 100, mm |-> raw.hhmm % 100, ss |-> 0]

\* pendulum.now("Asia/Seoul").to_datetime_string() at lines 308, 345 and 360:
\* the value written to created_at and processed_at, which nothing reads back
WallClockString == "now"

\* md5 of f"{area_code}_{observed_at}", taken as collision-free
generate_source_id(area_code, observed_at) == <<"md5", area_code, "_", observed_at>>

\* ------------------------------------------- parsing / coercion layer
\* a Python value of a raw JSON field, or a result: kind is "None", "str"
\* (text), "int" (sign neg and magnitude mag), "bigint" (an int beyond the
\* range of float, such as 10**400), "float" (finite, mag in units of
\* 1/FloatScale), "inf", "nan", "bool" (mag 0 or 1), "list", "NA" (pd.NA), or
\* the name of an exception that leaves the function
PyVal(kind, text, neg, mag) == [kind |-> kind, text |-> text, neg |-> neg, mag |-> mag]
PyNone == PyVal("None", <<>>, FALSE, 0)
PyStr(s) == PyVal("str", s, FALSE, 0)
PyInt(neg, n) == PyVal("int", <<>>, neg /\ n > 0, n)
PyBigInt == PyVal("bigint", <<>>, FALSE, 0)
PyFloat(neg, m) == PyVal("float", <<>>, neg, m)
PyInf(neg) == PyVal("inf", <<>>, neg, 0)
PyNaN == PyVal("nan", <<>>, FALSE, 0)
PyBool(b) == PyVal("bool", <<>>, FALSE, IF b THEN 1 ELSE 0)
PyList == PyVal("list", <<>>, FALSE, 0)
pd_NA == PyVal("NA", <<>>, FALSE, 0)
Raised(exc) == PyVal(exc, <<>>, FALSE, 0)
Exceptions == {"ValueError", "TypeError", "OverflowError"}

\* a text of at most MaxText characters has at most MaxText - 1 fraction digits
FracDigits == MaxText - 1
FloatScale == 10 ^ FracDigits

TextChars == {"0", "2", "4", ".", "-", "a", "f", "i", "n"}
Texts == UNION {[1..n -> TextChars] : n \in 0..MaxText}

\* the values a raw field can hold after json.loads
Scalars ==
    {PyNone, PyBigInt, PyNaN, PyList}
      \cup {PyStr(s) : s \in Texts}
      \cup {PyInt(neg, n) : neg \in BOOLEAN, n \in {0, 7, 42}}
      \cup {PyFloat(neg, m) : neg \in BOOLEAN, m \in {0, 42 * (FloatScale \div 10)}}
      \cup {PyInf(neg) : neg \in BOOLEAN}
      \cup {PyBool(b) : b \in BOOLEAN}

\* a decimal literal of float(): digits with at most one point and at least
\* one digit
IsDecimal(t) ==
    LET dots == {i \in 1..Len(t) : t[i] = "."} IN
    /\ Cardinality(dots) <= 1
    /\ Len(t) > Cardinality(dots)
    /\ \A i \in (1..Len(t)) \ dots : t[i] \in Digits

DecimalMag(t) ==
    LET dots == {i \in 1..Len(t) : t[i] = "."}
        dot == IF dots = {} THEN Len(t) + 1 ELSE CHOOSE i \in dots : TRUE
        whole == SubSeq(t, 1, dot - 1)
        frac == SubSeq(t, dot + 1, Len(t))
    IN  IntOfStr(whole) * FloatScale + IntOfStr(frac) * 10 ^ (FracDigits - Len(frac))

\* float(s) for a string: an optional sign, then inf, nan or a decimal literal
FloatOfStr(s) ==
    LET neg == Len(s) > 0 /\ s[1] = "-"
        t == IF neg THEN Tail(s) ELSE s
    IN  IF t = <<"i", "n", "f">> THEN PyInf(neg)
        ELSE IF t = <<"n", "a", "n">> THEN PyNaN
        ELSE IF IsDecimal(t) THEN PyFloat(neg, DecimalMag(t))
        ELSE Raised("ValueError")

\* float(val)
py_float(val) ==
    CASE val.kind = "str" -> FloatOfStr(val.text)
      [] val.kind \in {"float", "inf", "nan"} -> val
      [] val.kind = "int" -> PyFloat(val.neg, val.mag * FloatScale)
      [] val.kind = "bool" -> PyFloat(FALSE, val.mag * FloatScale)
      [] val.kind = "bigint" -> Raised("OverflowError")
      [] OTHER -> Raised("TypeError")

\* int(f) for a float f: truncation toward zero
py_int(f) ==
    CASE f.kind = "nan" -> Raised("ValueError")
      [] f.kind = "inf" -> Raised("OverflowError")
      [] OTHER -> PyInt(f.neg, f.mag \div FloatScale)

\* lines 49-57: only ValueError and TypeError are caught
parse_int(val) ==
    IF val = PyNone \/ val = PyStr(<<>>) THEN pd_NA
    ELSE LET f == py_float(val)
             n == IF f.kind \in Exceptions THEN f ELSE py_int(f)
         IN  IF n.kind \in {"ValueError", "TypeError"} THEN pd_NA ELSE n

\* lines 60-67
parse_float(val) ==
    LET f == py_float(val)
    IN  IF f.kind \in {"ValueError", "TypeError"} THEN PyNone ELSE f

\* ------------------------------------------------------------------ state
VARIABLES
    rawStore,       \* raw objects: key -> body (written by the external producer)
    historyDoc,     \* the object {S3_PROCESSED_HISTORY_PREFIX}/commercial.json
    blobs,          \* parquet objects: key -> rows
    warehouse,      \* the two Redshift source tables, as bags of rows
    now,            \* wall clock, minutes
    run,            \* per DAG run: its position and the values its tasks hold
    uploadedPairs,  \* history: pairs whose area row reached a parquet blob
    saveLog,        \* history: the runs that saved the history document, in order
    val,            \* the raw field value given to parse_int or parse_float
    coerced         \* the function called on val and what came of the call

vars == <<rawStore, historyDoc, blobs, warehouse, now, run, uploadedPairs, saveLog,
          val, coerced>>
\* the state of the DAG runs and of the stores
dagVars == <<rawStore, historyDoc, blobs, warehouse, now, run, uploadedPairs, saveLog>>

\* ------------------------------------------------------- discovery (4.1)
Ref(t, a) ==
    [file_time |-> t, area_id |-> a,
     file_name |-> [hhmm |-> StrfHHMM(t), name |-> StrOfInt(a)]]

\* the key the extractor rebuilds for a reference
RefKey(ref) == RawKey(StrfDate(ref.file_time), ref.file_name.hhmm, ref.file_name.name)

\* list_objects_v2(Prefix = {S3_PREFIX}/{YYYYMMDD}/{HHmm}_): the names under the
\* prefix of minute t, in the store's listing order
RECURSIVE InListingOrder(_)
InListingOrder(S) ==
    IF S = {} THEN <<>>
    ELSE LET first == CHOOSE x \in S :
                 \A y \in S \ {x} : LexLess(x \o <<".">>, y \o <<".">>)
         IN  <<first>> \o InListingOrder(S \ {first})

ListBucket(store, t) ==
    InListingOrder({k.name : k \in {x \in DOMAIN store :
                        x.date = StrfDate(t) /\ x.hhmm = StrfHHMM(t)}})

\* a window that ends at the trigger minute itself
BucketMinute_UpToTrigger(T, i) == T - (LOOKBACK - 1 - i)

\* the i-th minute checked, i = 0..LOOKBACK-1
BucketMinute(T, i) == T - (LOOKBACK - i)

\* the references of one bucket; ok is FALSE when int(parts[1]) raises
RECURSIVE BucketRefs(_, _)
BucketRefs(t, names) ==
    IF Len(names) = 0 THEN [ok |-> TRUE, refs |-> <<>>]
    ELSE IF ~IsIntLiteral(AreaPart(Head(names))) THEN [ok |-> FALSE, refs |-> <<>>]
    ELSE LET rest == BucketRefs(t, Tail(names))
         IN  [ok |-> rest.ok,
              refs |-> <<Ref(t, IntOfStr(AreaPart(Head(names))))>> \o rest.refs]

RECURSIVE DiscoverFrom(_, _, _)
DiscoverFrom(store, T, i) ==
    IF i = LOOKBACK THEN [ok |-> TRUE, refs |-> <<>>]
    ELSE LET here == BucketRefs(BucketMinute(T, i), ListBucket(store, BucketMinute(T, i)))
             rest == DiscoverFrom(store, T, i + 1)
         IN  [ok |-> here.ok /\ rest.ok, refs |-> here.refs \o rest.refs]

Discovery(store, T) == DiscoverFrom(store, T, 0)

\* --------------------------------------------------- history ledger (4.2)
EmptyDict == <<>>
NoDoc == [exists |-> FALSE, body |-> EmptyDict]
\* json.dumps / json.loads of a dict with string keys and lists of entries
json_dumps(d) == [exists |-> TRUE, body |-> d]
json_loads(doc) == doc.body

\* a flattening that takes only the first entry of each area's list
FlattenHistory_FirstEntry(d) ==
    {<<IntOfStr(k), d[k][1].observed_at>> : k \in {x \in DOMAIN d : Len(d[x]) > 0}}

\* a load that fills the dict and leaves the membership set empty
FlattenHistory_NoLoad(d) == {}

\* lines 202-206: the membership set of a loaded dict
FlattenHistory(d) ==
    UNION {{<<IntOfStr(k), d[k][i].observed_at>> : i \in 1..Len(d[k])} : k \in DOMAIN d}

\* a load that keeps the membership set but starts the dict afresh
LoadedDict_Fresh(doc) == EmptyDict

\* lines 195-200: the dict a run starts from
LoadedDict(doc) == IF doc.exists THEN json_loads(doc) ELSE EmptyDict

\* lines 197-199: what get_object answers for the history document.  fetched
\* is FALSE when it raises an error other than NoSuchKey.
HistoryResponse(doc, fetched) ==
    IF ~fetched THEN "error" ELSE IF doc.exists THEN "ok" ELSE "NoSuchKey"

\* a handler that takes every client error for a missing document
LoadRaises_Never(response) == FALSE

\* lines 211-219: the error is raised again unless its code is NoSuchKey
LoadRaises(response) == response = "error"

\* a membership test that never finds the pair
is_processed_Never(set, area_id, observed_at) == FALSE

\* lines 221-223
is_processed(set, area_id, observed_at) == <<area_id, observed_at>> \in set

\* a membership set that is not told of the pair
RememberPair_Lost(set, area_id, observed_at) == set

\* line 353: processed_observed_at_set.add((area_id, observed_at))
RememberPair(set, area_id, observed_at) == set \cup {<<area_id, observed_at>>}

\* a record that replaces the area's list by the new entry
RecordHistory_Replace(d, area_id, observed_at) ==
    [x \in DOMAIN d \cup {StrOfInt(area_id)} |->
        IF x = StrOfInt(area_id)
          THEN <<[observed_at |-> observed_at, processed_at |-> WallClockString]>>
          ELSE d[x]]

\* a record that appends the entry twice
RecordHistory_Twice(d, area_id, observed_at) ==
    LET k == StrOfInt(area_id)
        entry == [observed_at |-> observed_at, processed_at |-> WallClockString]
    IN  [x \in DOMAIN d \cup {k} |->
            IF x = k THEN (IF k \in DOMAIN d THEN d[k] ELSE <<>>) \o <<entry, entry>>
            ELSE d[x]]

\* a record that leaves the dict as it was
RecordHistory_Lost(d, area_id, observed_at) == d

\* lines 353-362: the dict after recording (area_id, observed_at)
RecordHistory(d, area_id, observed_at) ==
    LET k == StrOfInt(area_id)
        entry == [observed_at |-> observed_at, processed_at |-> WallClockString]
    IN  [x \in DOMAIN d \cup {k} |->
            IF x = k THEN (IF k \in DOMAIN d THEN d[k] ELSE <<>>) \o <<entry>>
            ELSE d[x]]

\* a conditional write that keeps the areas of the stored document which the
\* written dict lacks
SavedDocument_Merged(old, d) ==
    json_dumps([k \in DOMAIN LoadedDict(old) \cup DOMAIN d |->
                   IF k \in DOMAIN d THEN d[k] ELSE LoadedDict(old)[k]])

\* lines 85-95: put_object of the serialized dict over the stored document
\* old, with no condition on old
SavedDocument(old, d) == json_dumps(d)

\* ------------------------------------------------- record extractor (4.3)
\* an extractor for which a missing object is as fatal as any other error
FileResult_MissingFatal(store, set, ref) ==
    IF RefKey(ref) \notin DOMAIN store THEN "fatal"
    ELSE LET body == store[RefKey(ref)] IN
         IF body.kind # "json" THEN "fatal"
         ELSE IF ~Parseable(body.time) THEN "bad_time"
         ELSE IF is_processed(set, ref.area_id, FormatObservedAt(body.time)) THEN "already"
         ELSE IF body.rsb = RsbNull THEN "fatal"
         ELSE "emitted"

\* an extractor that lets the timestamp's parse error escape the loop
FileResult_TimeFatal(store, set, ref) ==
    IF RefKey(ref) \notin DOMAIN store THEN "NoSuchKey"
    ELSE LET body == store[RefKey(ref)] IN
         IF body.kind # "json" THEN "fatal"
         ELSE IF ~Parseable(body.time) THEN "fatal"
         ELSE IF is_processed(set, ref.area_id, FormatObservedAt(body.time)) THEN "already"
         ELSE IF body.rsb = RsbNull THEN "fatal"
         ELSE "emitted"

\* what lines 235-371 do with one reference, given the store and the
\* membership set: "NoSuchKey" (skip), "fatal" (the body does not parse, or
\* the loop at 314 raises on a null CMRCL_RSB after the area row was
\* appended), "bad_time" (skip), "already" (skip), "emitted"
FileResult(store, set, ref) ==
    IF RefKey(ref) \notin DOMAIN store THEN "NoSuchKey"
    ELSE LET body == store[RefKey(ref)] IN
         IF body.kind # "json" THEN "fatal"
         ELSE IF ~Parseable(body.time) THEN "bad_time"
         ELSE IF is_processed(set, ref.area_id, FormatObservedAt(body.time)) THEN "already"
         ELSE IF body.rsb = RsbNull THEN "fatal"
         ELSE "emitted"

\* an area row identified by the minute of its file, not by its observation
AreaRow_IdFromFileTime(ref, body) ==
    [source_id |-> generate_source_id(body.area_cd,
                      FormatObservedAt(RawTime(StrfDate(ref.file_time),
                                               StrfHHMM(ref.file_time)))),
     area_code |-> body.area_cd,
     observed_at |-> FormatObservedAt(body.time),
     created_at |-> WallClockString,
     src |-> ref]

\* lines 258-312: the area row of a file (src: the reference it came from)
AreaRow(ref, body) ==
    [source_id |-> generate_source_id(body.area_cd, FormatObservedAt(body.time)),
     area_code |-> body.area_cd,
     observed_at |-> FormatObservedAt(body.time),
     created_at |-> WallClockString,
     src |-> ref]

\* category rows whose identifier is taken from the entry, which has no AREA_CD
RsbRows_OwnId(ref, body) ==
    [i \in 1..(IF body.rsb < 0 THEN 0 ELSE body.rsb) |->
        [source_id |-> generate_source_id("", FormatObservedAt(body.time)),
         category |-> i,
         observed_at |-> FormatObservedAt(body.time),
         created_at |-> WallClockString,
         src |-> ref]]

\* lines 314-349: the category rows of a file, one per CMRCL_RSB entry
RsbRows(ref, body) ==
    [i \in 1..(IF body.rsb < 0 THEN 0 ELSE body.rsb) |->
        [source_id |-> generate_source_id(body.area_cd, FormatObservedAt(body.time)),
         category |-> i,
         observed_at |-> FormatObservedAt(body.time),
         created_at |-> WallClockString,
         src |-> ref]]

\* -------------------------------------------------------- encoder, upload
NoPath == <<>>
\* a key that names the date of the upload only
BlobKey_ByDate(table, t) == [table |-> table, date |-> StrfDate(t), hhmm |-> 0]

\* lines 390-392, 504-506, 604: {prefix of the table}/{YYYYMMDD}/{HHmm}.parquet
\* of the processing time
BlobKey(table, t) == [table |-> table, date |-> StrfDate(t), hhmm |-> StrfHHMM(t)]

RECURSIVE SeqToBag(_)
SeqToBag(rows) ==
    IF Len(rows) = 0 THEN EmptyBag
    ELSE SetToBag({Head(rows)}) (+) SeqToBag(Tail(rows))

PairOf(row) == <<row.src.area_id, row.observed_at>>
PairsOf(rows) == {PairOf(rows[i]) : i \in 1..Len(rows)}

\* ------------------------------------------------------------------- Init
\* no coercion function has been called
NotCalled == [fn |-> "", out |-> PyNone]

Stores ==
    UNION {[K -> Bodies] : K \in {S \in SUBSET RawKeys : Cardinality(S) <= MaxFiles}}

NoPaths == [commercial_parquet_path |-> NoPath, rsb_parquet_path |-> NoPath]

\* a run that has not been triggered.  pc: the next call on shared state;
\* failed_task, cause: the task that raised and why ("" while none did);
\* outcome, startDoc, ledgerFetch, loadedSet are history: what happened to
\* each reference handled, the history document when the run started, what
\* get_object answered for it ("" while not asked), the membership set right
\* after the load
NewRun ==
    [pc |-> "idle", failed_task |-> "", cause |-> "",
     logical_date |-> 0,
     files_to_process |-> <<>>,
     idx |-> 0,
     processed_observed_at_set |-> {},
     processed_observed_at_dict |-> EmptyDict,
     source_commercial_data |-> <<>>,
     source_commercial_rsb_data |-> <<>>,
     saved_parquet_paths |-> NoPaths,
     current_process_time |-> 0,
     outcome |-> <<>>,
     startDoc |-> NoDoc,
     ledgerFetch |-> "",
     loadedSet |-> {}]

Init ==
    /\ rawStore \in Stores
    /\ historyDoc = NoDoc
    /\ blobs = <<>>
    /\ warehouse = [comm |-> EmptyBag, rsb |-> EmptyBag]
    /\ now = ClockStart
    /\ run = [r \in Runs |-> NewRun]
    /\ uploadedPairs = {}
    /\ saveLog = <<>>
    /\ val = PyNone
    /\ coerced = NotCalled

\* a task raised: the run is failed and its downstream tasks never start.
\* What extract_and_transform or load_to_s3 held is handed to no one;
\* load_to_redshift holds nothing of its own.
Failed(rec, task, why) ==
    IF task = "load_to_redshift"
      THEN [rec EXCEPT !.pc = "failed", !.failed_task = task, !.cause = why]
      ELSE [NewRun EXCEPT !.pc = "failed", !.failed_task = task, !.cause = why,
                          !.startDoc = rec.startDoc,
                          !.ledgerFetch = rec.ledgerFetch]

\* ---------------------------------------------- extract_and_transform
\* a loop that hands over to the save of the history document
AfterFile_SkipUpload(refs, n) == IF n = Len(refs) THEN "save_history" ELSE "extract"

\* the position after n references are handled: the loop, or load_to_s3
AfterFile(refs, n) == IF n = Len(refs) THEN "upload_comm" ELSE "extract"

\* lines 149-219: the run as it stands after Discovery and the load of the
\* history document.  listed is FALSE when list_objects_v2 raises, fetched is
\* FALSE when get_object raises an error other than NoSuchKey.
Started(store, doc, T, listed, fetched) ==
    LET found == Discovery(store, T)
        d == LoadedDict(doc)
        rec == [NewRun EXCEPT !.logical_date = T, !.startDoc = doc]
        asked == [rec EXCEPT !.ledgerFetch = HistoryResponse(doc, fetched)]
    IN  IF ~listed THEN Failed(rec, "extract_and_transform", "list_objects")
        ELSE IF ~found.ok THEN Failed(rec, "extract_and_transform", "file_name")
        ELSE IF LoadRaises(asked.ledgerFetch)
          THEN Failed(asked, "extract_and_transform", "get_history")
        ELSE [asked EXCEPT !.pc = AfterFile(found.refs, 0),
                         !.files_to_process = found.refs,
                         !.processed_observed_at_dict = d,
                         !.processed_observed_at_set = FlattenHistory(d),
                         !.loadedSet = FlattenHistory(d)]

\* the run is triggered, lists its five buckets and fetches the history
\* document (the raw objects do not change, so the document is the only
\* shared object this reads).  Runs are numbered in the order they start.
Discover(r) ==
    /\ run[r].pc = "idle"
    /\ \A q \in Runs : q < r => run[q].pc # "idle"
    /\ \E T \in TriggerTimes, listed \in BOOLEAN, fetched \in BOOLEAN :
         run' = [run EXCEPT ![r] = Started(rawStore, historyDoc, T, listed, fetched)]
    /\ UNCHANGED <<rawStore, historyDoc, blobs, warehouse, now, uploadedPairs, saveLog, val, coerced>>

\* lines 228-371: the run after one iteration of the loop over
\* files_to_process.  fetched is FALSE when get_object raises an error other
\* than NoSuchKey.
Extracted(rec, store, fetched) ==
    LET ref == rec.files_to_process[rec.idx + 1]
        res == FileResult(store, rec.processed_observed_at_set, ref)
        body == store[RefKey(ref)]
        next == [rec EXCEPT !.idx = @ + 1,
                            !.pc = AfterFile(rec.files_to_process, rec.idx + 1),
                            !.outcome = Append(@, res)]
    IN  IF ~fetched THEN Failed(rec, "extract_and_transform", "get_object")
        ELSE IF res = "fatal" THEN Failed(rec, "extract_and_transform", "body")
        ELSE IF res = "emitted"
          THEN [next EXCEPT
                  !.source_commercial_data = Append(@, AreaRow(ref, body)),
                  !.source_commercial_rsb_data = @ \o RsbRows(ref, body),
                  !.processed_observed_at_set =
                      RememberPair(@, ref.area_id, FormatObservedAt(body.time)),
                  !.processed_observed_at_dict =
                      RecordHistory(@, ref.area_id, FormatObservedAt(body.time))]
        ELSE next

ExtractFile(r) ==
    /\ run[r].pc = "extract"
    /\ \E fetched \in BOOLEAN :
         run' = [run EXCEPT ![r] = Extracted(run[r], rawStore, fetched)]
    /\ UNCHANGED <<rawStore, historyDoc, blobs, warehouse, now, uploadedPairs, saveLog, val, coerced>>

\* ------------------------------------------------------------ load_to_s3
PutBlob(b, key, rows) == [k \in DOMAIN b \cup {key} |-> IF k = key THEN rows ELSE b[k]]

\* an upload that encodes and puts a collection even when it is empty
Uploads_Always(rows) == TRUE

\* lines 399 and 524: a collection is encoded and uploaded when it is not empty
Uploads(rows) == rows # <<>>

\* a task that hands the area blob to the warehouse load as soon as it is put
AfterCommercial_LoadFirst(rec) ==
    IF rec.source_commercial_data # <<>> THEN "copy_comm" ELSE "save_history"

\* lines 521-524, 616-619: with no category rows the next call is the save
AfterCommercial(rec) ==
    IF Uploads(rec.source_commercial_rsb_data) THEN "upload_rsb" ELSE "save_history"

\* lines 390-522: the task starts, reads the clock and, when there are area
\* rows, encodes them and uploads the blob under the processing time.  stored
\* is FALSE when the encoding or put_object raises.
UploadCommercial(r) ==
    /\ run[r].pc = "upload_comm"
    /\ IF ~Uploads(run[r].source_commercial_data)
         THEN /\ run' = [run EXCEPT ![r].pc = AfterCommercial(run[r]),
                                    ![r].current_process_time = now]
              /\ UNCHANGED <<blobs, uploadedPairs>>
         ELSE \E stored \in BOOLEAN :
                IF stored
                  THEN /\ blobs' = PutBlob(blobs, BlobKey("commercial", now),
                                           run[r].source_commercial_data)
                       /\ uploadedPairs' =
                             uploadedPairs \cup PairsOf(run[r].source_commercial_data)
                       /\ run' = [run EXCEPT
                             ![r].pc = AfterCommercial(run[r]),
                             ![r].current_process_time = now,
                             ![r].saved_parquet_paths.commercial_parquet_path =
                                 <<BlobKey("commercial", now)>>]
                  ELSE /\ run' = [run EXCEPT ![r] = Failed(@, "load_to_s3", "put_blob")]
                       /\ UNCHANGED <<blobs, uploadedPairs>>
    /\ UNCHANGED <<rawStore, historyDoc, warehouse, now, saveLog, val, coerced>>

\* lines 524-617: the category table
UploadRsb(r) ==
    /\ run[r].pc = "upload_rsb"
    /\ \E stored \in BOOLEAN :
         IF stored
           THEN /\ blobs' = PutBlob(blobs, BlobKey("rsb", run[r].current_process_time),
                                    run[r].source_commercial_rsb_data)
                /\ run' = [run EXCEPT
                      ![r].pc = "save_history",
                      ![r].saved_parquet_paths.rsb_parquet_path =
                          <<BlobKey("rsb", run[r].current_process_time)>>]
           ELSE /\ run' = [run EXCEPT ![r] = Failed(@, "load_to_s3", "put_blob")]
                /\ UNCHANGED blobs
    /\ UNCHANGED <<rawStore, historyDoc, warehouse, now, uploadedPairs, saveLog, val, coerced>>

\* a save that is followed by the upload of the category blob
AfterSave_ThenUpload(paths) == "upload_rsb"

\* lines 641-653: load_to_redshift returns at once when there is no path, and
\* issues a COPY only for a path that was saved
AfterSave(paths) ==
    IF paths.commercial_parquet_path # NoPath THEN "copy_comm"
    ELSE IF paths.rsb_parquet_path # NoPath THEN "copy_rsb"
    ELSE "done"

AfterCopyCommercial(paths) ==
    IF paths.rsb_parquet_path # NoPath THEN "copy_rsb" ELSE "done"

\* lines 619-634 and 70-108: the history document is overwritten.  stored is
\* FALSE when put_object raises.
SaveHistory(r) ==
    /\ run[r].pc = "save_history"
    /\ \E stored \in BOOLEAN :
         IF stored
           THEN /\ historyDoc' = SavedDocument(historyDoc, run[r].processed_observed_at_dict)
                /\ saveLog' = Append(saveLog, r)
                /\ run' = [run EXCEPT ![r].pc = AfterSave(run[r].saved_parquet_paths)]
           ELSE /\ run' = [run EXCEPT ![r] = Failed(@, "load_to_s3", "put_history")]
                /\ UNCHANGED <<historyDoc, saveLog>>
    /\ UNCHANGED <<rawStore, blobs, warehouse, now, uploadedPairs, val, coerced>>

\* ------------------------------------------------------ load_to_redshift
\* lines 653-675: COPY of the area blob.  copied is FALSE when the hook raises.
CopyCommercial(r) ==
    /\ run[r].pc = "copy_comm"
    /\ \E copied \in BOOLEAN :
         IF copied
           THEN /\ warehouse' = [warehouse EXCEPT !.comm = @ (+)
                     SeqToBag(blobs[run[r].saved_parquet_paths.commercial_parquet_path[1]])]
                /\ run' = [run EXCEPT
                      ![r].pc = AfterCopyCommercial(run[r].saved_parquet_paths)]
           ELSE /\ run' = [run EXCEPT ![r] = Failed(@, "load_to_redshift", "copy")]
                /\ UNCHANGED warehouse
    /\ UNCHANGED <<rawStore, historyDoc, blobs, now, uploadedPairs, saveLog, val, coerced>>

\* lines 677-699: COPY of the category blob
CopyRsb(r) ==
    /\ run[r].pc = "copy_rsb"
    /\ \E copied \in BOOLEAN :
         IF copied
           THEN /\ warehouse' = [warehouse EXCEPT !.rsb = @ (+)
                     SeqToBag(blobs[run[r].saved_parquet_paths.rsb_parquet_path[1]])]
                /\ run' = [run EXCEPT ![r].pc = "done"]
           ELSE /\ run' = [run EXCEPT ![r] = Failed(@, "load_to_redshift", "copy")]
                /\ UNCHANGED warehouse
    /\ UNCHANGED <<rawStore, historyDoc, blobs, now, uploadedPairs, saveLog, val, coerced>>

\* the wall clock advances; only the step that reads it (pendulum.now() at
\* line 390) can tell when
Tick ==
    /\ now < ClockStart + MaxClock
    /\ \E r \in Runs : run[r].pc = "upload_comm"
    /\ now' = now + 1
    /\ UNCHANGED <<rawStore, historyDoc, blobs, warehouse, run, uploadedPairs, saveLog, val, coerced>>

\* ------------------------------------------------------- specifications
Active(r) == run[r].pc \notin {"idle", "done", "failed"}

\* a run starts only when no other run is active (the single-writer
\* requirement on the scheduler)
DiscoverSerial(r) ==
    /\ \A q \in Runs \ {r} : ~Active(q)
    /\ Discover(r)

Step(r) ==
    \/ ExtractFile(r)
    \/ UploadCommercial(r)
    \/ UploadRsb(r)
    \/ SaveHistory(r)
    \/ CopyCommercial(r)
    \/ CopyRsb(r)

Next == Tick \/ \E r \in Runs : Discover(r) \/ Step(r)

Spec == Init /\ [][Next]_vars

NextSerial == Tick \/ \E r \in Runs : DiscoverSerial(r) \/ Step(r)

SpecSerial == Init /\ [][NextSerial]_vars

\* the coercion functions on their own: any field value, one call
InitCoerce ==
    /\ rawStore = <<>>
    /\ historyDoc = NoDoc
    /\ blobs = <<>>
    /\ warehouse = [comm |-> EmptyBag, rsb |-> EmptyBag]
    /\ now = ClockStart
    /\ run = [r \in Runs |-> NewRun]
    /\ uploadedPairs = {}
    /\ saveLog = <<>>
    /\ val \in Scalars
    /\ coerced = NotCalled

CallParseInt ==
    /\ coerced = NotCalled
    /\ coerced' = [fn |-> "parse_int", out |-> parse_int(val)]
    /\ UNCHANGED <<dagVars, val>>

CallParseFloat ==
    /\ coerced = NotCalled
    /\ coerced' = [fn |-> "parse_float", out |-> parse_float(val)]
    /\ UNCHANGED <<dagVars, val>>

NextCoerce == CallParseInt \/ CallParseFloat

SpecCoerce == InitCoerce /\ [][NextCoerce]_vars

\* ------------------------------------------------------------ properties
Range(f) == {f[i] : i \in DOMAIN f}
\* the pairs of a stored document (none when there is no document)
DocPairs(doc) == FlattenHistory(doc.body)
PersistedPairs == DocPairs(historyDoc)

\* the (area_id, observed_at) pair a reference yields when its object exists
\* and its timestamp parses
Yields(ref) ==
    /\ RefKey(ref) \in DOMAIN rawStore
    /\ rawStore[RefKey(ref)].kind = "json"
    /\ Parseable(rawStore[RefKey(ref)].time)
FilePair(ref) == <<ref.area_id, FormatObservedAt(rawStore[RefKey(ref)].time)>>

\* extract_and_transform has returned its two collections and the dict
Returned(r) ==
    \/ run[r].pc \in {"upload_comm", "upload_rsb", "save_history", "copy_comm",
                      "copy_rsb", "done"}
    \/ run[r].failed_task = "load_to_redshift"

\* C1: no row of a run, area or category, is for a pair that was in the
\* history document the run loaded
C1_LoadedPairsExcluded ==
    \A r \in Runs :
        /\ PairsOf(run[r].source_commercial_data) \cap run[r].loadedSet = {}
        /\ PairsOf(run[r].source_commercial_rsb_data) \cap run[r].loadedSet = {}

\* a finished run skipped a file whose pair it had loaded from the document
C1_Witness ==
    \E r \in Runs : \E i \in 1..Len(run[r].outcome) :
        /\ run[r].pc = "done"
        /\ run[r].outcome[i] = "already"
        /\ FilePair(run[r].files_to_process[i]) \in run[r].loadedSet

\* C2: idempotence of extraction.  When a run q starts from the document
\* that a run r saved, over the same references as r, q emits no area row and
\* no category row and records nothing: the dict it holds is the one it loaded.
C2_SecondRunEmitsNothing ==
    \A r, q \in Runs :
        ( /\ r # q
          /\ r \in Range(saveLog)
          /\ Returned(q) \/ run[q].pc = "extract"
          /\ run[q].startDoc = json_dumps(run[r].processed_observed_at_dict)
          /\ run[q].files_to_process = run[r].files_to_process )
        => /\ run[q].source_commercial_data = <<>>
           /\ run[q].source_commercial_rsb_data = <<>>
           /\ run[q].processed_observed_at_dict = run[q].startDoc.body

\* a run that emitted rows and saved is followed by a finished run over the
\* same references
C2_Witness ==
    \E r, q \in Runs :
        /\ r # q
        /\ r \in Range(saveLog)
        /\ run[r].source_commercial_data # <<>>
        /\ run[q].pc = "done"
        /\ run[q].startDoc = json_dumps(run[r].processed_observed_at_dict)
        /\ run[q].files_to_process = run[r].files_to_process
        /\ \E i \in 1..Len(run[q].outcome) : run[q].outcome[i] = "already"

\* C3: no phantom entries.  Every pair of the persisted history document
\* belongs to an area row whose blob was uploaded, and a run whose encoding or
\* upload raised has saved nothing.
C3_NoPhantomEntries ==
    /\ PersistedPairs \subseteq uploadedPairs
    /\ \A r \in Runs : run[r].cause = "put_blob" => r \notin Range(saveLog)

\* the document holds pairs while a run has failed in its upload
C3_Witness ==
    /\ PersistedPairs # {}
    /\ \E r \in Runs : run[r].cause = "put_blob"

\* C4: the save is an unconditional overwrite.  Once runs have saved, the
\* persisted document is the dict of the run that saved last, so its pairs are
\* the ones that run loaded and the ones it recorded; what another run saved
\* after that load is not in it.
C4_LastSaveOverwrites ==
    saveLog # <<>> =>
        LET w == saveLog[Len(saveLog)] IN
        /\ historyDoc = json_dumps(run[w].processed_observed_at_dict)
        /\ PersistedPairs = run[w].loadedSet \cup PairsOf(run[w].source_commercial_data)

\* the same pair was loaded into the area table twice
DuplicateLoaded ==
    \E x, y \in BagToSet(warehouse.comm) :
        /\ PairOf(x) = PairOf(y)
        /\ x # y \/ CopiesIn(x, warehouse.comm) > 1

\* two runs loaded the (missing) document before either saved; both saved; the
\* document lacks a pair the first saver recorded, and the warehouse holds an
\* observation twice
C4_Witness ==
    \E r, q \in Runs :
        /\ saveLog = <<r, q>>
        /\ ~run[r].startDoc.exists /\ ~run[q].startDoc.exists
        /\ PairsOf(run[r].source_commercial_data) \ PersistedPairs # {}
        /\ PairsOf(run[r].source_commercial_data) \cap
              PairsOf(run[q].source_commercial_data) # {}
        /\ DuplicateLoaded

\* C5: under non-overlapping runs no step removes a pair from the persisted
\* history document
C5_HistoryGrows ==
    [][PersistedPairs \subseteq PersistedPairs']_vars

\* the last save was by a run that had loaded pairs and found nothing new, and
\* the pairs are still there
C5_Witness ==
    /\ Len(saveLog) > 1
    /\ LET w == saveLog[Len(saveLog)] IN
       /\ run[w].loadedSet # {}
       /\ run[w].source_commercial_data = <<>>
       /\ run[w].loadedSet \subseteq PersistedPairs

\* the run started last
Latest(r) == run[r].pc # "idle" /\ \A q \in Runs : q > r => run[q].pc = "idle"

\* C6: under non-overlapping runs, when the latest run has failed in a step
\* before the save, the history document is the one the run started with
C6_FailedRunLeavesHistory ==
    \A r \in Runs :
        ( /\ Latest(r)
          /\ run[r].pc = "failed"
          /\ run[r].cause \in {"list_objects", "file_name", "get_history",
                               "get_object", "body", "put_blob"} )
        => /\ historyDoc = run[r].startDoc
           /\ r \notin Range(saveLog)

\* a run fails in its upload after an earlier run had saved pairs
C6_Witness ==
    \E r \in Runs :
        /\ Latest(r)
        /\ run[r].cause = "put_blob"
        /\ run[r].startDoc.exists
        /\ DocPairs(run[r].startDoc) # {}

\* run r handles its next reference and get_object raises no error other
\* than NoSuchKey
Handles(r) ==
    /\ run[r].pc = "extract"
    /\ run'[r] # run[r]
    /\ run'[r].cause # "get_object"
CurrentRef(r) == run[r].files_to_process[run[r].idx + 1]

\* the reference was skipped: the loop goes on with the next one, nothing was
\* emitted and the set and the dict are as before
Skipped(r) ==
    /\ run'[r].pc = AfterFile(run[r].files_to_process, run[r].idx + 1)
    /\ run'[r].idx = run[r].idx + 1
    /\ run'[r].source_commercial_data = run[r].source_commercial_data
    /\ run'[r].source_commercial_rsb_data = run[r].source_commercial_rsb_data
    /\ run'[r].processed_observed_at_set = run[r].processed_observed_at_set
    /\ run'[r].processed_observed_at_dict = run[r].processed_observed_at_dict

\* C7: a reference whose object does not exist is skipped
C7_MissingObjectSkipped ==
    [][\A r \in Runs :
          (Handles(r) /\ RefKey(CurrentRef(r)) \notin DOMAIN rawStore) => Skipped(r)]_vars

\* a finished run met a missing object and emitted a later reference
C7_Witness ==
    \E r \in Runs : \E i, j \in 1..Len(run[r].outcome) :
        /\ run[r].pc = "done"
        /\ i < j
        /\ run[r].outcome[i] = "NoSuchKey"
        /\ run[r].outcome[j] = "emitted"

\* C8: a file whose CMRCL_TIME does not parse is skipped
C8_BadTimestampSkipped ==
    [][\A r \in Runs :
          ( /\ Handles(r)
            /\ RefKey(CurrentRef(r)) \in DOMAIN rawStore
            /\ rawStore[RefKey(CurrentRef(r))].kind = "json"
            /\ ~Parseable(rawStore[RefKey(CurrentRef(r))].time) )
          => Skipped(r)]_vars

\* a finished run met a timestamp that does not parse and emitted a later
\* reference
C8_Witness ==
    \E r \in Runs : \E i, j \in 1..Len(run[r].outcome) :
        /\ run[r].pc = "done"
        /\ i < j
        /\ run[r].outcome[i] = "bad_time"
        /\ run[r].outcome[j] = "emitted"

\* C9: every category row of a run has the source_id and observed_at of an
\* area row of the same run, and the source_id of the area row of its own file
C9_NoOrphanCategoryRows ==
    \A r \in Runs :
        LET area == run[r].source_commercial_data
            rsb == run[r].source_commercial_rsb_data
        IN  \A j \in 1..Len(rsb) :
              /\ \E i \in 1..Len(area) :
                    /\ area[i].source_id = rsb[j].source_id
                    /\ area[i].observed_at = rsb[j].observed_at
              /\ \E i \in 1..Len(area) : area[i].src = rsb[j].src
              /\ \A i \in 1..Len(area) :
                    area[i].src = rsb[j].src => area[i].source_id = rsb[j].source_id

\* a finished run emitted the category rows of two files
C9_Witness ==
    \E r \in Runs :
        /\ run[r].pc = "done"
        /\ Len(run[r].source_commercial_data) = 2
        /\ \E j, k \in 1..Len(run[r].source_commercial_rsb_data) :
              run[r].source_commercial_rsb_data[j].src #
                 run[r].source_commercial_rsb_data[k].src

RECURSIVE SumRsb(_)
SumRsb(refs) ==
    IF Len(refs) = 0 THEN 0
    ELSE (IF rawStore[RefKey(Head(refs))].rsb < 0 THEN 0
          ELSE rawStore[RefKey(Head(refs))].rsb) + SumRsb(Tail(refs))

\* the observed_at values of the references of area a, in Discovery order
RECURSIVE TimesOf(_, _)
TimesOf(refs, a) ==
    IF Len(refs) = 0 THEN <<>>
    ELSE (IF Head(refs).area_id = a
            THEN <<FormatObservedAt(rawStore[RefKey(Head(refs))].time)>>
            ELSE <<>>) \o TimesOf(Tail(refs), a)

\* run r started from an empty ledger and every reference yields a pair of
\* its own
FreshDistinctFiles(r) ==
    LET refs == run[r].files_to_process IN
    /\ Returned(r)
    /\ DocPairs(run[r].startDoc) = {} /\ run[r].startDoc.body = EmptyDict
    /\ \A i \in 1..Len(refs) : Yields(refs[i])
    /\ \A i, j \in 1..Len(refs) : i # j => FilePair(refs[i]) # FilePair(refs[j])

\* C10: for such a run there is one area row per file, one category row per
\* category entry, and the dict holds one entry per file under the string of
\* the file's area_id, which is what its save persists
C10_OneRowPerFile ==
    \A r \in Runs :
        FreshDistinctFiles(r) =>
            LET refs == run[r].files_to_process
                d == run[r].processed_observed_at_dict
            IN  /\ Len(run[r].source_commercial_data) = Len(refs)
                /\ Len(run[r].source_commercial_rsb_data) = SumRsb(refs)
                /\ DOMAIN d = {StrOfInt(refs[i].area_id) : i \in 1..Len(refs)}
                /\ \A i \in 1..Len(refs) :
                      /\ Len(d[StrOfInt(refs[i].area_id)]) =
                            Len(TimesOf(refs, refs[i].area_id))
                      /\ \A n \in 1..Len(d[StrOfInt(refs[i].area_id)]) :
                            d[StrOfInt(refs[i].area_id)][n].observed_at =
                               TimesOf(refs, refs[i].area_id)[n]
                /\ (saveLog # <<>> /\ saveLog[Len(saveLog)] = r) =>
                       historyDoc = json_dumps(d)

\* a run over two files, four category entries, under two area ids, has saved
C10_Witness ==
    \E r \in Runs :
        /\ FreshDistinctFiles(r)
        /\ Len(run[r].files_to_process) = 2
        /\ SumRsb(run[r].files_to_process) = 4
        /\ run[r].files_to_process[1].area_id # run[r].files_to_process[2].area_id
        /\ saveLog = <<r>>
        /\ run[r].pc = "done"

\* the run holds the set and the dict of the extraction
InExtraction(r) == run[r].pc = "extract" \/ Returned(r)

\* C11: round trip of the ledger.  The dict a run holds, serialized by the
\* save and read back by the load, gives the membership set the run holds; a
\* run that started from the document serialized from another run's dict
\* loaded that run's set.
C11_LedgerRoundTrip ==
    /\ \A r \in Runs :
          FlattenHistory(json_loads(json_dumps(run[r].processed_observed_at_dict)))
             = run[r].processed_observed_at_set
    /\ \A r, q \in Runs :
          ( /\ InExtraction(r) /\ InExtraction(q)
            /\ run[q].startDoc = json_dumps(run[r].processed_observed_at_dict) )
          => run[q].loadedSet = run[r].processed_observed_at_set

\* a run saved a dict with two entries under one area, and a later run loaded
\* both pairs from the document
C11_Witness ==
    \E r, q \in Runs :
        /\ r # q
        /\ r \in Range(saveLog)
        /\ \E k \in DOMAIN run[r].processed_observed_at_dict :
              Len(run[r].processed_observed_at_dict[k]) = 2
        /\ InExtraction(q)
        /\ run[q].startDoc = json_dumps(run[r].processed_observed_at_dict)
        /\ Cardinality(run[q].loadedSet) = 2

\* C12: load of the ledger.  When get_object answers NoSuchKey the load does
\* not fail the run and the run starts from the empty set and the empty dict,
\* so both hold only what the run's own rows added; when it answers any other
\* error the run has failed in extract_and_transform with no file handled.
C12_LedgerLoad ==
    \A r \in Runs :
        /\ run[r].ledgerFetch = "NoSuchKey" =>
              /\ run[r].cause # "get_history"
              /\ run[r].loadedSet = {}
              /\ (InExtraction(r) /\ run[r].source_commercial_data = <<>>) =>
                    /\ run[r].processed_observed_at_set = {}
                    /\ run[r].processed_observed_at_dict = EmptyDict
              /\ InExtraction(r) =>
                    /\ run[r].processed_observed_at_set =
                          PairsOf(run[r].source_commercial_data)
                    /\ FlattenHistory(run[r].processed_observed_at_dict) =
                          PairsOf(run[r].source_commercial_data)
        /\ run[r].ledgerFetch = "error" =>
              /\ run[r].pc = "failed"
              /\ run[r].failed_task = "extract_and_transform"
              /\ run[r].cause = "get_history"
              /\ run[r].outcome = <<>>
              /\ run[r].source_commercial_data = <<>>

\* a run that found no document has finished with rows, and a run whose
\* fetch of the (existing) document raised has failed
C12_Witness ==
    \E r, q \in Runs :
        /\ run[r].ledgerFetch = "NoSuchKey"
        /\ run[r].pc = "done"
        /\ run[r].source_commercial_data # <<>>
        /\ run[q].ledgerFetch = "error"
        /\ run[q].startDoc.exists
        /\ run[q].pc = "failed"

\* the minutes whose buckets a run triggered at T lists
Window(T) == {BucketMinute(T, i) : i \in 0..(LOOKBACK - 1)}
\* the keys of the store that a run triggered at T is given by its listings
ListedKeys(T) ==
    {k \in DOMAIN rawStore :
        \E t \in Window(T) : k.date = StrfDate(t) /\ k.hhmm = StrfHHMM(t)}
\* the name is HHmm_{area_id}.json: what follows "HHmm_" is an integer
TwoPartName(k) == IsIntLiteral(k.name)

\* C13: a run that is past Discovery (it did not abort there) was given no
\* key whose file name departs from HHmm_{area_id}.json
C13_BadNameAborts ==
    \A r \in Runs :
        InExtraction(r) => \A k \in ListedKeys(run[r].logical_date) : TwoPartName(k)

\* C14: parse_int and parse_float are total: whatever the field value, the
\* call returns a number or the missing marker and no exception leaves it
C14_CoerceTotal ==
    /\ coerced.out.kind \notin Exceptions
    /\ coerced.fn = "parse_int" => coerced.out.kind \in {"int", "NA"}
    /\ coerced.fn = "parse_float" => coerced.out.kind \in {"float", "inf", "nan", "None"}

\* a string that float() does not read: the empty string and every text that
\* is not a literal
NonNumericText(v) == v.kind = "str" /\ py_float(v).kind = "ValueError"
\* a number, or a string that float() reads as one, NaN apart (it has no
\* integer part to return)
NumericValue(v) ==
    \/ v.kind \in {"int", "bigint", "float", "inf"}
    \/ v.kind = "str" /\ py_float(v).kind \in {"float", "inf"}

\* C15: parse_int returns pd.NA for None, for "" and for a non-numeric
\* string, and for a numeric string or a number the integer its float value
\* truncates to; parse_float returns None for None and for a non-numeric
\* string and the float value of any other string or number
C15_CoerceValues ==
    LET f == py_float(val)
        out == coerced.out
    IN  /\ coerced.fn = "parse_int" =>
              /\ (val = PyNone \/ NonNumericText(val)) => out = pd_NA
              /\ NumericValue(val) =>
                    /\ out.kind = "int"
                    /\ f.kind = "float" => out = PyInt(f.neg, f.mag \div FloatScale)
        /\ coerced.fn = "parse_float" =>
              /\ (val = PyNone \/ NonNumericText(val)) => out = PyNone
              /\ (NumericValue(val) \/ val.kind = "nan" \/ f.kind = "nan") =>
                    /\ out.kind \in {"float", "inf", "nan"}
                    /\ f.kind \notin Exceptions => out = f

\* every area row emitted: held by a run, written to a blob, or loaded
AreaRowsEmitted ==
    UNION {Range(run[r].source_commercial_data) : r \in Runs}
      \cup UNION {Range(blobs[k]) : k \in {x \in DOMAIN blobs : x.table = "commercial"}}
      \cup BagToSet(warehouse.comm)

\* C16: the source_id of an area row is generate_source_id of the row's own
\* area_code and observed_at, so rows of any runs that agree on both fields
\* agree on source_id
C16_SourceIdDeterministic ==
    /\ \A x \in AreaRowsEmitted :
          x.source_id = generate_source_id(x.area_code, x.observed_at)
    /\ \A x, y \in AreaRowsEmitted :
          (x.area_code = y.area_code /\ x.observed_at = y.observed_at)
             => x.source_id = y.source_id

\* rows of two files with the same area code and observation time were loaded
\* by two runs
C16_Witness ==
    \E x, y \in BagToSet(warehouse.comm) :
        /\ x.src # y.src
        /\ x.area_code = y.area_code
        /\ x.observed_at = y.observed_at
        /\ \E r, q \in Runs :
              /\ r # q
              /\ x \in Range(run[r].source_commercial_data)
              /\ y \in Range(run[q].source_commercial_data)

\* load_to_redshift of run r has started
LoadStarted(r) ==
    \/ run[r].pc \in {"copy_comm", "copy_rsb", "done"}
    \/ run[r].failed_task = "load_to_redshift"

\* C17: order of the steps of a run, under non-overlapping runs.  The
\* warehouse load has started only if the run saved the ledger; a run saves
\* once, after its rows were uploaded, and does nothing but the warehouse load
\* afterwards; when the warehouse load has failed, the pairs of the run are in
\* the persisted ledger and every later run loaded them and emitted none.
C17_UploadSaveLoad ==
    \A r \in Runs :
        /\ LoadStarted(r) => r \in Range(saveLog)
        /\ r \in Range(saveLog) =>
              /\ Cardinality({i \in 1..Len(saveLog) : saveLog[i] = r}) = 1
              /\ LoadStarted(r)
              /\ PairsOf(run[r].source_commercial_data) \subseteq uploadedPairs
              /\ run[r].source_commercial_data # <<>> =>
                    run[r].saved_parquet_paths.commercial_parquet_path # NoPath
              /\ run[r].source_commercial_rsb_data # <<>> =>
                    run[r].saved_parquet_paths.rsb_parquet_path # NoPath
        /\ run[r].failed_task = "load_to_redshift" =>
              /\ PairsOf(run[r].source_commercial_data) \subseteq PersistedPairs
              /\ \A q \in Runs : (q > r /\ InExtraction(q)) =>
                    /\ PairsOf(run[r].source_commercial_data) \subseteq run[q].loadedSet
                    /\ PairsOf(run[q].source_commercial_data) \cap
                          PairsOf(run[r].source_commercial_data) = {}

\* the warehouse load of a run failed with nothing loaded, and a later run
\* has finished having skipped a file of that run as already processed
C17_Witness ==
    \E r, q \in Runs : \E i \in 1..Len(run[q].outcome) :
        /\ q > r
        /\ run[r].failed_task = "load_to_redshift"
        /\ run[q].pc = "done"
        /\ run[q].outcome[i] = "already"
        /\ FilePair(run[q].files_to_process[i]) \in PairsOf(run[r].source_commercial_data)
        /\ warehouse.comm = EmptyBag

PathNames == {"commercial_parquet_path", "rsb_parquet_path"}
\* runs r and q both report a blob for the table of path name p
BothUploaded(r, q, p) ==
    /\ r # q
    /\ run[r].saved_parquet_paths[p] # NoPath
    /\ run[q].saved_parquet_paths[p] # NoPath

\* C18 as stated: two runs that uploaded a blob for the same table wrote
\* different keys
C18_KeysDiffer ==
    \A r, q \in Runs : \A p \in PathNames :
        BothUploaded(r, q, p) =>
            run[r].saved_parquet_paths[p] # run[q].saved_parquet_paths[p]

\* the keys of two runs for a table are equal exactly when the runs read the
\* same processing minute
KeysByMinute ==
    \A r, q \in Runs : \A p \in PathNames :
        BothUploaded(r, q, p) =>
            ( run[r].saved_parquet_paths[p] = run[q].saved_parquet_paths[p]
                <=> run[r].current_process_time = run[q].current_process_time )

\* a step that replaces a blob is an upload by a run whose processing minute
\* is the minute of the blob's key
OverwrittenInOwnMinute ==
    \A k \in DOMAIN blobs :
        blobs'[k] # blobs[k] =>
            \E r \in Runs :
                /\ run[r].pc \in {"upload_comm", "upload_rsb"}
                /\ run'[r] # run[r]
                /\ k.date = StrfDate(run'[r].current_process_time)
                /\ k.hhmm = StrfHHMM(run'[r].current_process_time)

\* C18, amended: runs that upload in different processing minutes write
\* different keys, and a blob is overwritten only by an upload of its own
\* minute
C18_KeysDifferAcrossMinutes ==
    [][KeysByMinute' /\ OverwrittenInOwnMinute]_vars

\* two runs over the same window have uploaded area blobs in different
\* minutes, and each blob holds the rows of its run
C18_Witness ==
    \E r, q \in Runs :
        /\ BothUploaded(r, q, "commercial_parquet_path")
        /\ run[r].logical_date = run[q].logical_date
        /\ run[r].files_to_process = run[q].files_to_process
        /\ run[r].current_process_time # run[q].current_process_time
        /\ blobs[run[r].saved_parquet_paths.commercial_parquet_path[1]]
              = run[r].source_commercial_data
        /\ blobs[run[q].saved_parquet_paths.commercial_parquet_path[1]]
              = run[q].source_commercial_data

\* the raw objects written under the date partition and HHmm of minute t
KeysOfMinute(t) ==
    {k \in DOMAIN rawStore : k.date = StrfDate(t) /\ k.hhmm = StrfHHMM(t)}

\* C19 as stated: the window of a run triggered at T ends 5 minutes before
\* T, so no reference is for a minute after T - 5
C19_WindowEndsFiveBefore ==
    \A r \in Runs :
        InExtraction(r) =>
            \A i \in 1..Len(run[r].files_to_process) :
                run[r].files_to_process[i].file_time <= run[r].logical_date - LOOKBACK

\* C19, amended: the window of a run triggered at T is the 5 minutes T - 5
\* to T - 1.  The references are, minute by minute in that order, one per
\* object under the date partition and HHmm prefix of the minute, and there is
\* none for any other minute.
C19_WindowStartsFiveBefore ==
    \A r \in Runs :
        InExtraction(r) =>
            LET T == run[r].logical_date
                refs == run[r].files_to_process
                W == (T - LOOKBACK)..(T - 1)
            IN  /\ \A i \in 1..Len(refs) :
                      /\ refs[i].file_time \in W
                      /\ refs[i].file_name.hhmm = StrfHHMM(refs[i].file_time)
                /\ \A i, j \in 1..Len(refs) :
                      i < j => refs[i].file_time <= refs[j].file_time
                /\ \A t \in W :
                      /\ Cardinality({i \in 1..Len(refs) : refs[i].file_time = t})
                            = Cardinality(KeysOfMinute(t))
                      /\ \A k \in KeysOfMinute(t) : \E i \in 1..Len(refs) :
                            /\ refs[i].file_time = t
                            /\ refs[i].area_id = IntOfStr(AreaPart(k.name))

\* a run triggered at 00:01 holds references of 23:59 of the day before and
\* of 00:00, and a run triggered at 00:00 or at 00:05 holds one reference
\* while the store has objects of both minutes
C19_Witness ==
    \E r, q \in Runs :
        /\ InExtraction(r) /\ InExtraction(q)
        /\ Len(run[r].files_to_process) = 2
        /\ StrfDate(run[r].files_to_process[1].file_time)
              # StrfDate(run[r].files_to_process[2].file_time)
        /\ run[q].logical_date # run[r].logical_date
        /\ Len(run[q].files_to_process) = 1
        /\ Cardinality(DOMAIN rawStore) = 2

\* C20: an empty collection is not an error.  A run reports a path only for
\* a collection that is not empty, and once load_to_s3 has returned it
\* reports one for each collection that is not empty, with the blob in the
\* store; a run with two empty collections goes from the save of the ledger
\* straight to the end of load_to_redshift, which issues no COPY, so it has
\* saved exactly when it is done and has not failed.
C20_EmptyCollections ==
    \A r \in Runs :
        LET paths == run[r].saved_parquet_paths
            area == run[r].source_commercial_data
            rsb == run[r].source_commercial_rsb_data
        IN  /\ paths.commercial_parquet_path # NoPath =>
                  /\ area # <<>>
                  /\ paths.commercial_parquet_path[1] \in DOMAIN blobs
            /\ paths.rsb_parquet_path # NoPath =>
                  /\ rsb # <<>>
                  /\ paths.rsb_parquet_path[1] \in DOMAIN blobs
            /\ LoadStarted(r) =>
                  /\ area # <<>> => paths.commercial_parquet_path # NoPath
                  /\ rsb # <<>> => paths.rsb_parquet_path # NoPath
            /\ (Returned(r) /\ area = <<>> /\ rsb = <<>>) =>
                  /\ run[r].pc \in {"upload_comm", "save_history", "done"}
                  /\ run[r].pc = "done" <=> r \in Range(saveLog)

\* a run whose files were all skipped has saved the ledger and is done with no
\* path reported, and a run with area rows and no category rows is done with
\* the area path only
C20_Witness ==
    \E r, q \in Runs :
        /\ run[r].pc = "done"
        /\ Len(run[r].files_to_process) > 0
        /\ run[r].source_commercial_data = <<>>
        /\ run[r].saved_parquet_paths = NoPaths
        /\ r \in Range(saveLog)
        /\ run[q].pc = "done"
        /\ run[q].source_commercial_data # <<>>
        /\ run[q].source_commercial_rsb_data = <<>>
        /\ run[q].saved_parquet_paths.commercial_parquet_path # NoPath
        /\ run[q].saved_parquet_paths.rsb_parquet_path = NoPath

\* the references among refs whose outcome is "emitted", in order
RECURSIVE EmittedRefs(_, _)
EmittedRefs(refs, outcome) ==
    IF Len(outcome) = 0 THEN <<>>
    ELSE (IF Head(outcome) = "emitted" THEN <<Head(refs)>> ELSE <<>>)
            \o EmittedRefs(Tail(refs), Tail(outcome))

\* C21: within a run there is at most one area row per (area_id,
\* observed_at).  The references are handled in Discovery order and the rows
\* are in that order; of the references that yield the same pair, one that
\* comes after another is skipped as already processed, and the first is
\* emitted unless the pair was loaded from the history document.
C21_OneRowPerPairInRun ==
    \A r \in Runs :
        InExtraction(r) =>
            LET refs == run[r].files_to_process
                out == run[r].outcome
                area == run[r].source_commercial_data
            IN  /\ \A i, j \in 1..Len(area) : i # j => PairOf(area[i]) # PairOf(area[j])
                /\ Len(out) = run[r].idx
                /\ [i \in 1..Len(area) |-> area[i].src] = EmittedRefs(refs, out)
                /\ \A i \in 1..Len(out) :
                      Yields(refs[i]) =>
                        IF \E j \in 1..(i - 1) :
                              Yields(refs[j]) /\ FilePair(refs[j]) = FilePair(refs[i])
                          THEN out[i] = "already"
                          ELSE out[i] = "emitted" <=> FilePair(refs[i]) \notin run[r].loadedSet

\* a finished run that loaded no document handled two references of
\* different minutes that yield the same pair: it emitted the first and
\* skipped the second
C21_Witness ==
    \E r \in Runs : \E i, j \in 1..Len(run[r].outcome) :
        /\ run[r].pc = "done"
        /\ run[r].loadedSet = {}
        /\ i < j
        /\ run[r].files_to_process[i].file_time # run[r].files_to_process[j].file_time
        /\ Yields(run[r].files_to_process[i]) /\ Yields(run[r].files_to_process[j])
        /\ FilePair(run[r].files_to_process[i]) = FilePair(run[r].files_to_process[j])
        /\ run[r].outcome[i] = "emitted"
        /\ run[r].outcome[j] = "already"
        /\ Len(run[r].source_commercial_data) = 1

\* C22: no two area rows of a run have the same source_id
C22_SourceIdUniqueInRun ==
    \A r \in Runs :
        LET area == run[r].source_commercial_data
        IN  \A i, j \in 1..Len(area) : i # j => area[i].source_id # area[j].source_id

\* the places (key, index) of the entries of dict d for area a and time t
EntriesFor(d, a, t) ==
    {e \in UNION {{<<k, i>> : i \in 1..Len(d[k])} : k \in DOMAIN d} :
        IntOfStr(e[1]) = a /\ d[e[1]][e[2]].observed_at = t}

\* no list of d holds an observed_at twice, and no two keys of d are the
\* same area_id
NoDuplicateEntries(d) ==
    /\ \A k \in DOMAIN d : \A i, j \in 1..Len(d[k]) :
          i # j => d[k][i].observed_at # d[k][j].observed_at
    /\ \A k, x \in DOMAIN d : IntOfStr(k) = IntOfStr(x) => k = x

\* C23: under non-overlapping runs the ledger holds no (area_id,
\* observed_at) twice, neither the dict a run holds nor the persisted
\* document, and every pair of an area row of a run that saved has exactly
\* one entry in the persisted document
C23_NoDuplicateLedgerEntries ==
    /\ NoDuplicateEntries(historyDoc.body)
    /\ \A r \in Runs :
          /\ NoDuplicateEntries(run[r].processed_observed_at_dict)
          /\ r \in Range(saveLog) =>
                \A i \in 1..Len(run[r].source_commercial_data) :
                    Cardinality(EntriesFor(historyDoc.body,
                        run[r].source_commercial_data[i].src.area_id,
                        run[r].source_commercial_data[i].observed_at)) = 1

\* a run saved a pair; the next run loaded the document, skipped the file of
\* that pair, emitted another file of the same area and saved: the document
\* holds two entries under the area
C23_Witness ==
    \E r, q \in Runs :
        /\ saveLog = <<r, q>>
        /\ run[q].pc = "done"
        /\ run[q].startDoc = json_dumps(run[r].processed_observed_at_dict)
        /\ run[r].source_commercial_data # <<>>
        /\ \E i \in 1..Len(run[q].outcome) :
              /\ run[q].outcome[i] = "already"
              /\ FilePair(run[q].files_to_process[i])
                    \in PairsOf(run[r].source_commercial_data)
        /\ \E i \in 1..Len(run[q].source_commercial_data) :
              /\ Len(historyDoc.body[StrOfInt(run[q].source_commercial_data[i].src.area_id)]) = 2
              /\ run[q].source_commercial_data[i].src.area_id
                    = run[r].source_commercial_data[1].src.area_id

\* the places (key, index) of the entries that run r appended to the dict it
\* loaded, and their pairs
LedgerAdded(r) ==
    LET d == run[r].processed_observed_at_dict
        old == run[r].startDoc.body
    IN  {e \in UNION {{<<k, i>> : i \in 1..Len(d[k])} : k \in DOMAIN d} :
            e[2] > (IF e[1] \in DOMAIN old THEN Len(old[e[1]]) ELSE 0)}
AddedPairs(r) ==
    {<<IntOfStr(e[1]), run[r].processed_observed_at_dict[e[1]][e[2]].observed_at>> :
        e \in LedgerAdded(r)}

\* what run r added to the ledger is what its area rows are for: the set
\* grew by the pairs of the rows, the dict kept the loaded entries and has
\* one new entry per row, for the pair of the row
AddedIsEmitted(r) ==
    LET d == run[r].processed_observed_at_dict
        old == run[r].startDoc.body
        area == run[r].source_commercial_data
    IN  /\ run[r].processed_observed_at_set \ run[r].loadedSet = PairsOf(area)
        /\ \A k \in DOMAIN old :
              k \in DOMAIN d /\ SubSeq(d[k], 1, Len(old[k])) = old[k]
        /\ AddedPairs(r) = PairsOf(area)
        /\ Cardinality(LedgerAdded(r)) = Len(area)
        /\ Len(area) = Len(EmittedRefs(run[r].files_to_process, run[r].outcome))

\* the step of run r that handled a reference either appended the area row
\* of the reference and recorded its pair, which the set did not hold, or
\* skipped the reference
RowAndEntryTogether(r) ==
    LET row == run'[r].source_commercial_data[Len(run'[r].source_commercial_data)]
    IN  IF run'[r].outcome[Len(run'[r].outcome)] = "emitted"
          THEN /\ run'[r].source_commercial_data
                     = Append(run[r].source_commercial_data, row)
               /\ row.src = CurrentRef(r)
               /\ PairOf(row) \notin run[r].processed_observed_at_set
               /\ run'[r].processed_observed_at_set
                     = run[r].processed_observed_at_set \cup {PairOf(row)}
               /\ run'[r].processed_observed_at_dict # run[r].processed_observed_at_dict
          ELSE Skipped(r)

\* C24: in every run the pairs added to the ledger during extraction are the
\* pairs of the area rows of the run: each iteration of the loop adds a
\* ledger entry exactly when it appends an area row, whatever the category
\* array of the file, and adds none for a skipped file
C24_LedgerAddedIffRowEmitted ==
    [][/\ \A r \in Runs : InExtraction(r)' => AddedIsEmitted(r)'
       /\ \A r \in Runs :
             (Handles(r) /\ run'[r].pc # "failed") => RowAndEntryTogether(r)]_vars

\* a finished run emitted two files, one with no category array and one with
\* an empty one, and added two entries; a finished run that loaded a document
\* skipped every file it had and added none
C24_Witness ==
    \E r, q \in Runs :
        /\ run[r].pc = "done"
        /\ Len(run[r].source_commercial_data) = 2
        /\ {rawStore[RefKey(run[r].files_to_process[i])].rsb : i \in 1..2} = {-1, 0}
        /\ Cardinality(LedgerAdded(r)) = 2
        /\ run[q].pc = "done"
        /\ run[q].startDoc.exists
        /\ Len(run[q].outcome) > 0
        /\ \A i \in 1..Len(run[q].outcome) : run[q].outcome[i] \in {"already", "bad_time"}
        /\ LedgerAdded(q) = {}

\* the keys that the listings of a run triggered at T return, bucket by
\* bucket from the i-th on, in listing order
RECURSIVE ListedFrom(_, _)
ListedFrom(T, i) ==
    IF i = LOOKBACK THEN <<>>
    ELSE LET t == (T - LOOKBACK) + i
             names == ListBucket(rawStore, t)
         IN  [n \in 1..Len(names) |-> RawKey(StrfDate(t), StrfHHMM(t), names[n])]
                \o ListedFrom(T, i + 1)

\* C25: a run that is past Discovery holds one reference per listed key, in
\* listing order, and the key the extractor rebuilds for the reference is the
\* listed key
C25_FetchedKeyIsListedKey ==
    \A r \in Runs :
        InExtraction(r) =>
            LET listed == ListedFrom(run[r].logical_date, 0)
                refs == run[r].files_to_process
            IN  /\ Len(refs) = Len(listed)
                /\ \A i \in 1..Len(refs) : RefKey(refs[i]) = listed[i]

====
